---- MODULE Spec2Model ----
(***************************************************************************)
(* Intro detector: sampling walk, similarity matrix, candidate search,     *)
(* detect_intro orchestration and the two batch drivers.                   *)
(*                                                                         *)
(* Units.  Timestamps are whole seconds (the walk adds 1/0.5 = 2 each      *)
(* time).  min_intro_length and max_intro_length are held in HALF seconds  *)
(* so that 0.5 s is representable; PyInt is Python's int() on them.        *)
(* A similarity is the exact rational <<numerator, denominator>>.          *)
(***************************************************************************)
EXTENDS Integers, Sequences, FiniteSets, TLC

VARIABLES
    cfg,               \* IntroDetector fields: min/max length, threshold
    video,             \* the file detect_intro is working on
    pc,                \* position inside detect_intro
    cap,               \* VideoProcessor.cap: "none", "unopened", "open", "released"
    fps, frame_count,  \* VideoProcessor fields
    current_time,      \* extract_fingerprints local
    fingerprints,      \* extract_fingerprints result {time: fingerprint}
    decoded,           \* log of extract_frame calls: <<time, ret>>
    similarity_matrix, \* compute_similarity_matrix result
    times,             \* compute_similarity_matrix result (0-based)
    candidates,        \* find_intro_candidates result
    result,            \* detect_intro outcome
    mode,              \* "detect_intro", "batch_detect_intros" or "main"
    files,             \* directory listing
    file_idx,          \* position of the batch loop
    results,           \* batch mapping file index -> result
    batch_pc           \* position inside the batch driver

vars == <<cfg, video, pc, cap, fps, frame_count, current_time, fingerprints,
          decoded, similarity_matrix, times, candidates, result, mode, files,
          file_idx, results, batch_pc>>

pipeVars == <<pc, cap, fps, frame_count, current_time, fingerprints, decoded,
              similarity_matrix, times, candidates, result>>

batchVars == <<mode, files, file_idx, results, batch_pc>>

-----------------------------------------------------------------------------
(* Bounds *)

FpLen == 2
MaxFrames == 6
LongFpLen == 1
LongSlots == 5
RankSlots == 4
MaxFiles == 2

(* Program constants *)

SamplePeriod == 2
Lookahead == 20
MaxCandidates == 5
HashBits == 64

-----------------------------------------------------------------------------
(* Helpers *)

Min(a, b) == IF a < b THEN a ELSE b

EmptyMap == [t \in {} |-> <<>>]

BitVectors(len) == [1..len -> {0, 1}]

\* Python int() on a value held in half units: truncation toward zero.
PyInt(h) == IF h >= 0 THEN h \div 2 ELSE -((-h) \div 2)

\* Python / numpy index semantics on an axis of length n.
IndexOK(n, k) == (-n <= k) /\ (k < n)
At(n, k) == IF k < 0 THEN k + n ELSE k

RatGT(a, b) == a[1] * b[2] > b[1] * a[2]
RatGE(a, b) == a[1] * b[2] >= b[1] * a[2]

RECURSIVE SumTo(_, _)
SumTo(f, k) == IF k < 0 THEN 0 ELSE f[k] + SumTo(f, k - 1)

RECURSIVE SortedSeq(_)
SortedSeq(S) ==
    IF S = {} THEN <<>>
    ELSE LET m == CHOOSE x \in S : \A y \in S : x <= y
         IN <<m>> \o SortedSeq(S \ {m})

-----------------------------------------------------------------------------
(* VideoProcessor *)

\* while current_time < duration, duration = frame_count / fps (fps > 0)
BeforeEnd(t, fc, f) == t * f < fc

\* extract_frame: frame_number = int(time_point * fps), then cap.read()
ExtractFrame(v, f, time_point) ==
    LET frame_number == time_point * f
    IN frame_number \in DOMAIN v.frames

-----------------------------------------------------------------------------
(* FingerprintExtractor.compute_similarity_matrix *)

Distance(fp1, fp2) == Cardinality({k \in 1..Len(fp1) : fp1[k] # fp2[k]})

Similarity(fp1, fp2) == <<Len(fp1) - Distance(fp1, fp2), Len(fp1)>>

SortedTimes(fps_map) ==
    LET s == SortedSeq(DOMAIN fps_map)
    IN [i \in 0..(Len(s) - 1) |-> s[i + 1]]

\* the mirror assignment of line 65 left out: np.zeros stays below the diagonal
ComputeSimilarityMatrixNoMirror(fps_map) ==
    LET ts == SortedTimes(fps_map)
        n == Cardinality(DOMAIN ts)
    IN [i \in 0..(n - 1) |->
         [j \in 0..(n - 1) |->
            IF i <= j THEN Similarity(fps_map[ts[i]], fps_map[ts[j]])
            ELSE <<0, 1>>]]

ComputeSimilarityMatrix(fps_map) ==
    LET ts == SortedTimes(fps_map)
        n == Cardinality(DOMAIN ts)
    IN [i \in 0..(n - 1) |->
         [j \in 0..(n - 1) |->
            IF i <= j THEN Similarity(fps_map[ts[i]], fps_map[ts[j]])
            ELSE Similarity(fps_map[ts[j]], fps_map[ts[i]])]]

-----------------------------------------------------------------------------
(* IntroDetector.find_intro_candidates *)

\* line 43
TooFarApart(c, ts, n, i, j) == 2 * (ts[At(n, j)] - ts[i]) > c.max_intro_length

\* lines 47-49: np.mean over the lookahead window
SequenceSimilarity(M, n, i, j) ==
    LET w == Min(Lookahead, n - j)
        cell == [k \in 0..(w - 1) |-> M[i + k][At(n, j + k)]]
        nums == [k \in 0..(w - 1) |-> cell[k][1]]
    IN <<SumTo(nums, w - 1), w * cell[0][2]>>

\* line 48: an index past the axis raises IndexError
LookaheadRaises(n, i, j) ==
    \E k \in 0..(Min(Lookahead, n - j) - 1) :
        ~IndexOK(n, i + k) \/ ~IndexOK(n, j + k)

\* lines 53-58: -1 stands for an IndexError raised by a read
RECURSIVE Extend(_, _, _, _, _, _, _)
Extend(M, c, n, i, j, k, last) ==
    IF k >= Min(PyInt(c.max_intro_length), n - j) THEN last
    ELSE IF ~IndexOK(n, i + k) \/ ~IndexOK(n, j + k) THEN -1
    ELSE IF RatGT(M[i + k][At(n, j + k)], c.similarity_threshold)
         THEN Extend(M, c, n, i, j, k + 1, k)
         ELSE last

\* line 61
DurationAcceptedNoMin(c, duration) == 2 * duration <= c.max_intro_length

DurationAccepted(c, duration) ==
    c.min_intro_length <= 2 * duration /\ 2 * duration <= c.max_intro_length

\* lines 51: the lookahead mean passes the threshold
Matches(M, c, n, i, j) ==
    RatGT(SequenceSimilarity(M, n, i, j), c.similarity_threshold)

\* body of the double loop for one (i, j): does it raise?
ProbeRaises(M, ts, c, n, i, j) ==
    IF ~IndexOK(n, j) THEN TRUE
    ELSE IF TooFarApart(c, ts, n, i, j) THEN FALSE
    ELSE IF LookaheadRaises(n, i, j) THEN TRUE
    ELSE IF ~Matches(M, c, n, i, j) THEN FALSE
    ELSE Extend(M, c, n, i, j, 0, 0) < 0

\* body of the double loop for one (i, j) that does not raise: the
\* candidates it appends (none or one)
Probe(M, ts, c, n, i, j) ==
    IF TooFarApart(c, ts, n, i, j) THEN <<>>
    ELSE IF ~Matches(M, c, n, i, j) THEN <<>>
    ELSE LET end_offset == Extend(M, c, n, i, j, 0, 0)
             duration == ts[i + end_offset] - ts[i]
         IN IF DurationAccepted(c, duration)
            THEN <<[start_time |-> ts[i],
                    end_time |-> ts[i + end_offset],
                    duration |-> duration,
                    similarity_score |-> SequenceSimilarity(M, n, i, j)]>>
            ELSE <<>>

\* lines 40-41: the (i, j) pairs in loop order
RECURSIVE ProbedPairs(_, _, _)
ProbedPairs(n, first, i) ==
    IF i >= n THEN <<>>
    ELSE LET lo == i + first
             cnt == IF n - lo > 0 THEN n - lo ELSE 0
         IN [k \in 1..cnt |-> <<i, lo + k - 1>>] \o ProbedPairs(n, first, i + 1)

\* out[lo] \o ... \o out[hi], halving the range to keep the recursion shallow
RECURSIVE Flatten(_, _, _)
Flatten(out, lo, hi) ==
    IF lo > hi THEN <<>>
    ELSE IF lo = hi THEN out[lo]
    ELSE LET mid == (lo + hi) \div 2
         IN Flatten(out, lo, mid) \o Flatten(out, mid + 1, hi)

\* lines 40-67: does the double loop raise?
SearchRaises(M, ts, c) ==
    LET n == Cardinality(DOMAIN ts)
        pairs == ProbedPairs(n, PyInt(c.min_intro_length), 0)
    IN \E p \in 1..Len(pairs) : ProbeRaises(M, ts, c, n, pairs[p][1], pairs[p][2])

\* lines 40-67: the candidates appended, in discovery order
RawCandidates(M, ts, c) ==
    LET n == Cardinality(DOMAIN ts)
        pairs == ProbedPairs(n, PyInt(c.min_intro_length), 0)
        out == [p \in 1..Len(pairs) |-> Probe(M, ts, c, n, pairs[p][1], pairs[p][2])]
    IN Flatten(out, 1, Len(pairs))

\* lines 40-44: the pairs that get past the continue of line 44
ProbedSet(ts, c) ==
    LET n == Cardinality(DOMAIN ts)
        pairs == ProbedPairs(n, PyInt(c.min_intro_length), 0)
    IN {pairs[p] : p \in {q \in 1..Len(pairs) :
                            ~TooFarApart(c, ts, n, pairs[q][1], pairs[q][2])}}

\* line 70: stable sort, descending by similarity_score
InsertByScoreBeforeTies(sorted, c) ==
    LET ahead == {p \in 1..Len(sorted) :
                    \A q \in 1..p : RatGT(sorted[q].similarity_score, c.similarity_score)}
        pos == Cardinality(ahead)
    IN SubSeq(sorted, 1, pos) \o <<c>> \o SubSeq(sorted, pos + 1, Len(sorted))

InsertByScore(sorted, c) ==
    LET ahead == {p \in 1..Len(sorted) :
                    \A q \in 1..p : RatGE(sorted[q].similarity_score, c.similarity_score)}
        pos == Cardinality(ahead)
    IN SubSeq(sorted, 1, pos) \o <<c>> \o SubSeq(sorted, pos + 1, Len(sorted))

RECURSIVE SortByScore(_, _, _)
SortByScore(cands, k, sorted) ==
    IF k > Len(cands) THEN sorted
    ELSE SortByScore(cands, k + 1, InsertByScore(sorted, cands[k]))

\* lines 78-79
OverlapsTouching(c, fc) ==
    c.start_time <= fc.end_time /\ c.end_time >= fc.start_time

OverlapsStartTwice(c, fc) ==
    c.start_time < fc.start_time /\ c.end_time > fc.start_time

Overlaps(c, fc) ==
    c.start_time < fc.end_time /\ c.end_time > fc.start_time

\* line 87
CapReachedNever(filtered) == FALSE

CapReached(filtered) == Len(filtered) >= MaxCandidates

\* lines 73-90
RECURSIVE FilterOverlaps(_, _, _)
FilterOverlaps(cands, k, filtered) ==
    IF k > Len(cands) THEN filtered
    ELSE LET c == cands[k]
         IN IF \E m \in 1..Len(filtered) : Overlaps(c, filtered[m])
            THEN FilterOverlaps(cands, k + 1, filtered)
            ELSE LET grown == Append(filtered, c)
                 IN IF CapReached(grown) THEN grown
                    ELSE FilterOverlaps(cands, k + 1, grown)

\* lines 36-90 (evaluated only when SearchRaises is false)
FindIntroCandidates(M, ts, c) ==
    FilterOverlaps(SortByScore(RawCandidates(M, ts, c), 1, <<>>), 1, <<>>)

-----------------------------------------------------------------------------
(* Inputs *)

\* timestamps 0, 2, 4, ... that lie before the end of a video
SampleTimes(f, fc) ==
    {t \in 0..fc : t % SamplePeriod = 0 /\ BeforeEnd(t, fc, f)}

\* which requested frames decode, and the fingerprint of each
FrameMaps(f, fc, len) ==
    UNION {[S -> BitVectors(len)] :
             S \in SUBSET {t * f : t \in SampleTimes(f, fc)}}

Unopenable == [openable |-> FALSE, fps |-> 0, frame_count |-> 0, frames |-> EmptyMap]

VideosOf(f, fc, len) ==
    {[openable |-> TRUE, fps |-> f, frame_count |-> fc, frames |-> fr] :
        fr \in FrameMaps(f, fc, len)}

Videos(len, maxFrames) ==
    {Unopenable} \cup
    UNION {VideosOf(f, fc, len) : f \in {0, 1}, fc \in 0..maxFrames}

Half == <<1, 2>>
FourFifths == <<4, 5>>

MakeCfg(lo, hi, th) ==
    [min_intro_length |-> lo, max_intro_length |-> hi, similarity_threshold |-> th]

\* defaults of IntroDetector.__init__: 2.0 s, 30.0 s, 0.8
DefaultCfg == MakeCfg(4, 60, FourFifths)

\* min_intro_length in {-1, 0, 0.5, 2} s, max_intro_length in {2, 30} s
Configs ==
    {MakeCfg(lo, hi, th) : lo \in {-2, 0, 1, 4}, hi \in {4, 60}, th \in {Half, FourFifths}}

LongConfigs ==
    {MakeCfg(lo, hi, th) : lo \in {0, 1, 4}, hi \in {4, 60}, th \in {Half, FourFifths}}

\* Scenario A: 40 samples at 0, 2, ..., 78; 64-bit fingerprints taken from
\* the rows of a Hadamard matrix, so that two different ones differ in 32 bits
RECURSIVE Parity(_, _)
Parity(a, b) ==
    IF a = 0 \/ b = 0 THEN 0
    ELSE ((a % 2) * (b % 2) + Parity(a \div 2, b \div 2)) % 2

HadamardRow(r) == [b \in 1..HashBits |-> Parity(r, b - 1)]

InRun(s) == s \in 0..9 \/ s \in 20..29

\* variant "same": every run sample shows one and the same frame;
\* variant "repeat": sample 20 + k repeats sample k, for k in 0..9
ScenarioRow(variant, s) ==
    IF variant = "same" THEN (IF InRun(s) THEN 0 ELSE s)
    ELSE (IF s \in 20..29 THEN s - 20 ELSE s)

ScenarioA(variant) ==
    [openable |-> TRUE, fps |-> 1, frame_count |-> 80,
     frames |-> [t \in {2 * s : s \in 0..39} |-> HadamardRow(ScenarioRow(variant, t \div 2))]]

ScenarioVideos == {ScenarioA("same"), ScenarioA("repeat")}

LongVideos == VideosOf(1, SamplePeriod * LongSlots, LongFpLen)

RankVideos == VideosOf(1, SamplePeriod * RankSlots, LongFpLen)

\* the directory of a batch run: an unreadable file, a one-sample clip and
\* a static clip of four samples
ShortClip == [openable |-> TRUE, fps |-> 1, frame_count |-> 1,
              frames |-> [t \in {0} |-> [b \in 1..FpLen |-> 0]]]

StaticClip == [openable |-> TRUE, fps |-> 1, frame_count |-> 8,
               frames |-> [t \in {0, 2, 4, 6} |-> [b \in 1..FpLen |-> 0]]]

FileEntries ==
    {[supported |-> sup, video |-> v] :
        sup \in BOOLEAN, v \in {Unopenable, ShortClip, StaticClip}}

Listings == UNION {[1..k -> FileEntries] : k \in 0..MaxFiles}

-----------------------------------------------------------------------------
(* detect_intro *)

Pending == [pending |-> TRUE]

\* VideoProcessor.__init__ via FingerprintExtractor.__init__, then the
\* first two assignments of extract_fingerprints
Construct ==
    /\ pc = "start"
    /\ cap' = IF video.openable THEN "open" ELSE "unopened"
    /\ fps' = video.fps
    /\ frame_count' = video.frame_count
    /\ IF video.fps = 0
       THEN /\ pc' = "raised"
            /\ result' = [raised |-> "ZeroDivisionError"]
       ELSE /\ pc' = "walk"
            /\ UNCHANGED result
    /\ current_time' = 0
    /\ fingerprints' = EmptyMap
    /\ UNCHANGED <<cfg, video, decoded, similarity_matrix, times, candidates>>
    /\ UNCHANGED batchVars

\* lines 34-36 of extract_fingerprints
PutAlways(fps_map, t, ret, fp) ==
    [x \in DOMAIN fps_map \cup {t} |-> IF x = t THEN fp ELSE fps_map[x]]

Put(fps_map, t, ret, fp) ==
    IF ret
    THEN [x \in DOMAIN fps_map \cup {t} |-> IF x = t THEN fp ELSE fps_map[x]]
    ELSE fps_map

\* line 38
AdvanceTwice(t) == t + 2 * SamplePeriod

Advance(t) == t + SamplePeriod

\* one iteration of the while loop of extract_fingerprints
WalkStep ==
    /\ pc = "walk"
    /\ BeforeEnd(current_time, frame_count, fps)
    /\ LET ret == ExtractFrame(video, fps, current_time)
           fp == IF ret THEN video.frames[current_time * fps] ELSE <<>>
       IN /\ fingerprints' = Put(fingerprints, current_time, ret, fp)
          /\ decoded' = Append(decoded, <<current_time, ret>>)
    /\ current_time' = Advance(current_time)
    /\ UNCHANGED <<cfg, video, pc, cap, fps, frame_count, similarity_matrix,
                   times, candidates, result>>
    /\ UNCHANGED batchVars

\* the loop of extract_fingerprints ends and the mapping is returned
WalkExit ==
    /\ pc = "walk"
    /\ ~BeforeEnd(current_time, frame_count, fps)
    /\ pc' = "matrix"
    /\ UNCHANGED <<cfg, video, cap, fps, frame_count, current_time,
                   fingerprints, decoded, similarity_matrix, times,
                   candidates, result>>
    /\ UNCHANGED batchVars

\* line 107: compute_similarity_matrix
ComputeMatrix ==
    /\ pc = "matrix"
    /\ times' = SortedTimes(fingerprints)
    /\ similarity_matrix' = ComputeSimilarityMatrix(fingerprints)
    /\ pc' = "search"
    /\ UNCHANGED <<cfg, video, cap, fps, frame_count, current_time,
                   fingerprints, decoded, candidates, result>>
    /\ UNCHANGED batchVars

\* line 110
Search ==
    /\ pc = "search"
    /\ IF SearchRaises(similarity_matrix, times, cfg)
       THEN /\ pc' = "raised"
            /\ result' = [raised |-> "IndexError"]
            /\ UNCHANGED candidates
       ELSE /\ pc' = "release"
            /\ candidates' = FindIntroCandidates(similarity_matrix, times, cfg)
            /\ UNCHANGED result
    /\ UNCHANGED <<cfg, video, cap, fps, frame_count, current_time,
                   fingerprints, decoded, similarity_matrix, times>>
    /\ UNCHANGED batchVars

\* line 113: release_resources -> VideoProcessor.release
Release ==
    /\ pc = "release"
    /\ cap' = "released"
    /\ pc' = "report"
    /\ UNCHANGED <<cfg, video, fps, frame_count, current_time, fingerprints,
                   decoded, similarity_matrix, times, candidates, result>>
    /\ UNCHANGED batchVars

\* lines 115-127
DetectionResult(cands) ==
    IF cands = <<>> THEN [found |-> FALSE]
    ELSE [found |-> TRUE,
          start_time |-> cands[1].start_time,
          end_time |-> cands[1].end_time,
          duration |-> cands[1].duration,
          confidence |-> cands[1].similarity_score]

Report ==
    /\ pc = "report"
    /\ result' = DetectionResult(candidates)
    /\ pc' = "returned"
    /\ UNCHANGED <<cfg, video, cap, fps, frame_count, current_time,
                   fingerprints, decoded, similarity_matrix, times, candidates>>
    /\ UNCHANGED batchVars

InitPipe ==
    /\ pc = "start"
    /\ cap = "none"
    /\ fps = 0
    /\ frame_count = 0
    /\ current_time = 0
    /\ fingerprints = EmptyMap
    /\ decoded = <<>>
    /\ similarity_matrix = EmptyMap
    /\ times = EmptyMap
    /\ candidates = <<>>
    /\ result = Pending

InitSingle ==
    /\ mode = "detect_intro"
    /\ files = <<>>
    /\ file_idx = 0
    /\ results = EmptyMap
    /\ batch_pc = "idle"

Init ==
    /\ cfg \in Configs
    /\ video \in Videos(FpLen, MaxFrames)
    /\ InitPipe
    /\ InitSingle

Next ==
    \/ Construct \/ WalkStep \/ WalkExit \/ ComputeMatrix
    \/ Search \/ Release \/ Report

Spec == Init /\ [][Next]_vars

\* detect_intro up to the return of extract_fingerprints; a single thread
\* runs the loop without stopping between two iterations
NextWalk == Construct \/ WalkStep \/ WalkExit

SpecWalk ==
    Init /\ [][NextWalk]_vars /\ WF_vars(WalkStep) /\ WF_vars(WalkExit)

InitLong ==
    /\ \/ cfg \in LongConfigs /\ video \in LongVideos
       \/ cfg = DefaultCfg /\ video \in ScenarioVideos
    /\ InitPipe
    /\ InitSingle

SpecLong == InitLong /\ [][Next]_vars

InitRank ==
    /\ cfg \in LongConfigs
    /\ video \in RankVideos
    /\ InitPipe
    /\ InitSingle

SpecRank == InitRank /\ [][Next]_vars

-----------------------------------------------------------------------------
(* batch_detect_intros (IntroDetector) and main (scripts/run_detector.py) *)

Supported(listing) == {k \in 1..Len(listing) : listing[k].supported}

\* main, lines 54-58: nothing to do when no video file is found
BatchBegin ==
    /\ batch_pc = "begin"
    /\ batch_pc' = IF mode = "main" /\ Supported(files) = {} THEN "returned_early"
                   ELSE "loop"
    /\ UNCHANGED <<cfg, video, mode, files, file_idx, results>>
    /\ UNCHANGED pipeVars

\* the loop head: skip a name without a video suffix, else call detect_intro
BatchNextFile ==
    /\ batch_pc = "loop"
    /\ file_idx < Len(files)
    /\ IF files[file_idx + 1].supported
       THEN /\ video' = files[file_idx + 1].video
            /\ batch_pc' = "call"
            /\ pc' = "start"
            /\ cap' = "none"
            /\ fingerprints' = EmptyMap
            /\ decoded' = <<>>
            /\ similarity_matrix' = EmptyMap
            /\ times' = EmptyMap
            /\ candidates' = <<>>
            /\ result' = Pending
            /\ UNCHANGED <<fps, frame_count, current_time, file_idx>>
       ELSE /\ file_idx' = file_idx + 1
            /\ UNCHANGED <<video, batch_pc>>
            /\ UNCHANGED pipeVars
    /\ UNCHANGED <<cfg, mode, files, results>>

\* detect_intro returned: results[filename] = result
BatchRecord ==
    /\ batch_pc = "call"
    /\ pc = "returned"
    /\ results' = [k \in DOMAIN results \cup {file_idx + 1} |->
                     IF k = file_idx + 1 THEN result ELSE results[k]]
    /\ file_idx' = file_idx + 1
    /\ batch_pc' = "loop"
    /\ pc' = "idle"
    /\ UNCHANGED <<cfg, video, mode, files>>
    /\ UNCHANGED <<cap, fps, frame_count, current_time, fingerprints, decoded,
                   similarity_matrix, times, candidates, result>>

\* the except clause of main; batch_detect_intros has none
Handler(m) == m = "main"

\* detect_intro raised: main catches and goes on, batch_detect_intros has
\* no handler and the exception leaves it
BatchExcept ==
    /\ batch_pc = "call"
    /\ pc = "raised"
    /\ IF Handler(mode)
       THEN /\ file_idx' = file_idx + 1
            /\ batch_pc' = "loop"
       ELSE /\ batch_pc' = "raised"
            /\ UNCHANGED file_idx
    /\ pc' = "idle"
    /\ UNCHANGED <<cfg, video, mode, files, results>>
    /\ UNCHANGED <<cap, fps, frame_count, current_time, fingerprints, decoded,
                   similarity_matrix, times, candidates, result>>

\* after the loop: json.dump(results)
BatchSave ==
    /\ batch_pc = "loop"
    /\ file_idx = Len(files)
    /\ batch_pc' = "saved"
    /\ UNCHANGED <<cfg, video, mode, files, file_idx, results>>
    /\ UNCHANGED pipeVars

InitBatch ==
    /\ cfg = DefaultCfg
    /\ mode \in {"batch_detect_intros", "main"}
    /\ files \in Listings
    /\ file_idx = 0
    /\ results = EmptyMap
    /\ batch_pc = "begin"
    /\ video = Unopenable
    /\ pc = "idle"
    /\ cap = "none"
    /\ fps = 0
    /\ frame_count = 0
    /\ current_time = 0
    /\ fingerprints = EmptyMap
    /\ decoded = <<>>
    /\ similarity_matrix = EmptyMap
    /\ times = EmptyMap
    /\ candidates = <<>>
    /\ result = Pending

NextBatch ==
    \/ BatchBegin \/ BatchNextFile \/ BatchRecord \/ BatchExcept \/ BatchSave
    \/ Construct \/ WalkStep \/ WalkExit \/ ComputeMatrix
    \/ Search \/ Release \/ Report

SpecBatch == InitBatch /\ [][NextBatch]_vars

-----------------------------------------------------------------------------
(* Properties *)

\* find_intro_candidates has returned its list
Searched == pc \in {"release", "report", "returned"}

NumSamples == Cardinality(DOMAIN times)

\* C1: every candidate returned by find_intro_candidates has
\* min_intro_length <= end_time - start_time <= max_intro_length.
C1_DurationWithinBounds ==
    Searched =>
        \A k \in 1..Len(candidates) :
            LET d == candidates[k].end_time - candidates[k].start_time
            IN /\ cfg.min_intro_length <= 2 * d
               /\ 2 * d <= cfg.max_intro_length
               /\ candidates[k].duration = d

\* a search that kept two candidates under a positive minimum length while
\* some probed pair matched and was dropped by the duration check
C1_Witness ==
    /\ Searched
    /\ cfg.min_intro_length > 0
    /\ Len(candidates) >= 2
    /\ \E i \in 0..(NumSamples - 1) : \E j \in (i + 1)..(NumSamples - 1) :
          /\ ~TooFarApart(cfg, times, NumSamples, i, j)
          /\ Matches(similarity_matrix, cfg, NumSamples, i, j)
          /\ Probe(similarity_matrix, times, cfg, NumSamples, i, j) = <<>>

\* C2: no two distinct candidates of the returned list overlap in time.
C2_NoOverlap ==
    Searched =>
        \A a, b \in 1..Len(candidates) :
            a # b => ~(/\ candidates[a].start_time < candidates[b].end_time
                       /\ candidates[a].end_time > candidates[b].start_time)

\* a search that returned at least two candidates and dropped another one
\* although the cap was not reached
C2_Witness ==
    /\ Searched
    /\ Len(candidates) >= 2
    /\ Len(candidates) < 5
    /\ Len(RawCandidates(similarity_matrix, times, cfg)) > Len(candidates)

\* C3: the returned list has at most 5 elements.
C3_AtMostFive == Searched => Len(candidates) <= 5

\* a search in which six or more candidates passed the duration check and
\* the first five of the ranking were pairwise disjoint and a sixth one was
\* disjoint from all of them
C3_Witness ==
    /\ Searched
    /\ Len(candidates) = 5
    /\ LET raw == SortByScore(RawCandidates(similarity_matrix, times, cfg), 1, <<>>)
       IN \E k \in 1..Len(raw) :
             /\ \A m \in 1..5 : raw[k] # candidates[m]
             /\ \A m \in 1..5 :
                   ~(/\ raw[k].start_time < candidates[m].end_time
                     /\ raw[k].end_time > candidates[m].start_time)

\* every off-diagonal entry is below the threshold and the diagonal is 1
BelowThresholdOffDiagonal ==
    \A i, j \in 0..(NumSamples - 1) :
        IF i = j THEN similarity_matrix[i][j][1] = similarity_matrix[i][j][2]
        ELSE RatGT(cfg.similarity_threshold, similarity_matrix[i][j])

\* C4: when every off-diagonal entry of the matrix is below the threshold,
\* find_intro_candidates returns an empty list and detect_intro returns
\* {found: false}.
C4_NoMatchNoCandidate ==
    (Searched /\ BelowThresholdOffDiagonal) =>
        /\ candidates = <<>>
        /\ (pc = "returned" => result = [found |-> FALSE])

\* C5: Scenario A under the default configuration yields exactly one
\* candidate, starting at 0, ending between 18 and 20, with score 1.0.
C5_ScenarioA ==
    (Searched /\ video \in ScenarioVideos /\ cfg = DefaultCfg) =>
        /\ Len(candidates) = 1
        /\ candidates[1].start_time = 0
        /\ candidates[1].end_time \in 18..20
        /\ candidates[1].similarity_score[1] = candidates[1].similarity_score[2]

\* C6: whenever detect_intro has returned or raised after the capture was
\* opened, the capture has been released.
C6_ReleasedOnEveryExit ==
    (pc \in {"returned", "raised"} /\ video.openable) => cap = "released"

\* C7: when a batch run is over, every supported file that can be
\* processed has its result in the mapping, whatever happened to the others.
C7_BatchSurvivesFailure ==
    batch_pc \in {"saved", "raised", "returned_early"} =>
        \A k \in Supported(files) :
            files[k].video.fps # 0 => k \in DOMAIN results

\* the matrix has been built from the mapping of the walk
MatrixBuilt == pc \in {"search", "release", "report", "returned"} \/
               (pc = "raised" /\ result = [raised |-> "IndexError"])

\* C8: a timeline of zero or one sample gives a 0x0 or 1x1 matrix, an empty
\* candidate list and {found: false}, and detect_intro does not raise.
C8_EmptyTimeline ==
    (MatrixBuilt /\ Cardinality(DOMAIN fingerprints) <= 1) =>
        /\ DOMAIN similarity_matrix = 0..(Cardinality(DOMAIN fingerprints) - 1)
        /\ pc # "raised"
        /\ (Searched => candidates = <<>>)
        /\ (pc = "returned" => result = [found |-> FALSE])

RECURSIVE Hamming(_, _, _)
Hamming(a, b, k) ==
    IF k = 0 THEN 0
    ELSE (IF a[k] = b[k] THEN 0 ELSE 1) + Hamming(a, b, k - 1)

\* C9: the matrix is symmetric, entry (i, j) is 1 - Hamming(fp_i, fp_j) / length
\* and lies in [0, 1], and every diagonal entry is exactly 1.
C9_MatrixSymmetric ==
    MatrixBuilt =>
        \A i, j \in 0..(NumSamples - 1) :
            LET e == similarity_matrix[i][j]
                fpi == fingerprints[times[i]]
                fpj == fingerprints[times[j]]
            IN /\ e = similarity_matrix[j][i]
               /\ e[2] > 0
               /\ e[1] * Len(fpi) = (Len(fpi) - Hamming(fpi, fpj, Len(fpi))) * e[2]
               /\ 0 <= e[1] /\ e[1] <= e[2]
               /\ (i = j => e[1] = e[2])

\* a matrix of three samples with an entry strictly between 0 and 1 and an
\* entry equal to 0
C9_Witness ==
    /\ MatrixBuilt
    /\ NumSamples = 3
    /\ \E i, j \in 0..2 : 0 < similarity_matrix[i][j][1] /\
                           similarity_matrix[i][j][1] < similarity_matrix[i][j][2]
    /\ \E i, j \in 0..2 : similarity_matrix[i][j][1] = 0

\* extract_fingerprints has returned its mapping
Walked == pc \in {"matrix", "search", "release", "report", "returned"} \/
          (pc = "raised" /\ result = [raised |-> "IndexError"])

\* what the finished walk must have done: requested 0, 2, 4, ... while
\* below the duration, in that order, and kept exactly the decoded ones
WalkComplete ==
    /\ \A k \in 1..Len(decoded) :
          /\ decoded[k][1] = 2 * (k - 1)
          /\ decoded[k][1] * fps < frame_count
          /\ decoded[k][2] = ((decoded[k][1] * fps) \in DOMAIN video.frames)
    /\ 2 * Len(decoded) * fps >= frame_count
    /\ DOMAIN fingerprints = {decoded[k][1] : k \in {m \in 1..Len(decoded) : decoded[m][2]}}
    /\ \A t \in DOMAIN fingerprints : fingerprints[t] = video.frames[t * fps]

\* C10: the walk requests exactly the timestamps 0, 1/R, 2/R, ... below the
\* duration, in increasing order, skips a timestamp whose frame fails to
\* decode and goes on, so that the mapping holds exactly the decoded
\* timestamps; and the walk always ends, handing its mapping on.
C10_WalkSkipsFailures ==
    /\ [](Walked => WalkComplete)
    /\ ((pc = "walk") ~> (pc = "matrix"))

\* a finished walk in which a decode failed and a later one succeeded
C10_Witness ==
    /\ pc = "matrix"
    /\ \E a, b \in 1..Len(decoded) :
          a < b /\ ~decoded[a][2] /\ decoded[b][2]

\* the pairs the search is said to probe: j - i above min_intro_length
\* counted in samples of 2 s, and the two samples at most max_intro_length apart
ClaimedPairs ==
    {pr \in (0..(NumSamples - 1)) \X (0..(NumSamples - 1)) :
        /\ 2 * SamplePeriod * (pr[2] - pr[1]) > cfg.min_intro_length
        /\ 2 * (times[pr[2]] - times[pr[1]]) <= cfg.max_intro_length}

\* C11: the search probes exactly the pairs (i, j) with
\* j > i + min_intro_length (in samples) and times[j] - times[i] <=
\* max_intro_length, and never a pair of the main diagonal.
C11_ProbedPairs ==
    Searched =>
        /\ ProbedSet(times, cfg) = ClaimedPairs
        /\ \A pr \in ProbedSet(times, cfg) : pr[1] # pr[2]

\* the end offset the walk is said to reach from (i, j): the last k of the
\* run of cells above the threshold that starts at k = 0, with k below
\* max_intro_length counted in samples of 2 s and below n - j
ClaimedEndOffset(i, j) ==
    LET ks == {k \in 0..(NumSamples - j - 1) :
                 2 * SamplePeriod * k < cfg.max_intro_length}
        run == {k \in ks : \A q \in 0..k :
                  RatGT(similarity_matrix[i + q][j + q], cfg.similarity_threshold)}
    IN IF run = {} THEN 0 ELSE Cardinality(run) - 1

\* C12: for a probed pair whose lookahead mean exceeds the threshold,
\* end_offset is the last k of the contiguous run of cells above the
\* threshold from k = 0, k being bounded by max_intro_length in samples
\* and by n - j.
C12_EndOffset ==
    Searched =>
        \A pr \in ProbedSet(times, cfg) :
            (pr[1] < pr[2] /\ Matches(similarity_matrix, cfg, NumSamples, pr[1], pr[2]))
                => Extend(similarity_matrix, cfg, NumSamples, pr[1], pr[2], 0, 0)
                     = ClaimedEndOffset(pr[1], pr[2])

\* equal scores
RatEQ(a, b) == RatGE(a, b) /\ RatGE(b, a)

\* (i1, j1) comes before (i2, j2) in the order of the double loop
DiscoveredBefore(a, b) == a[1] < b[1] \/ (a[1] = b[1] /\ a[2] < b[2])

\* the candidates that passed the duration check, each with the probed
\* pair that appended it
Found ==
    LET hits == {pr \in ProbedSet(times, cfg) :
                   Probe(similarity_matrix, times, cfg, NumSamples, pr[1], pr[2]) # <<>>}
    IN {[pair |-> pr,
         cand |-> Probe(similarity_matrix, times, cfg, NumSamples, pr[1], pr[2])[1]] :
          pr \in hits}

\* C13: the returned list is ordered by non-increasing similarity_score;
\* of two returned candidates of equal score the one that stands first was
\* discovered at a pair (i, j) earlier in loop order; and detect_intro
\* reports the first element, whose score is maximal among those returned.
C13_RankedStable ==
    /\ Searched =>
         LET found == Found
         IN \A p, q \in 1..Len(candidates) :
               p < q =>
                 /\ RatGE(candidates[p].similarity_score, candidates[q].similarity_score)
                 /\ RatEQ(candidates[p].similarity_score, candidates[q].similarity_score)
                      => \E a, b \in found :
                            /\ DiscoveredBefore(a.pair, b.pair)
                            /\ a.cand = candidates[p]
                            /\ b.cand = candidates[q]
    /\ (pc = "returned" /\ candidates # <<>>) =>
         /\ result.found
         /\ result.start_time = candidates[1].start_time
         /\ result.end_time = candidates[1].end_time
         /\ result.confidence = candidates[1].similarity_score
         /\ \A p \in 1..Len(candidates) :
               RatGE(result.confidence, candidates[p].similarity_score)

\* a detection that returned two different candidates of equal score and
\* two candidates of different scores
C13_Witness ==
    /\ pc = "returned"
    /\ \E p, q \in 1..Len(candidates) :
          /\ p < q
          /\ candidates[p] # candidates[q]
          /\ RatEQ(candidates[p].similarity_score, candidates[q].similarity_score)
    /\ \E p, q \in 1..Len(candidates) :
          ~RatGE(candidates[q].similarity_score, candidates[p].similarity_score)

\* the ranking: higher score first, and of equal scores the pair probed first
RankedBefore(a, b) ==
    \/ ~RatGE(b.cand.similarity_score, a.cand.similarity_score)
    \/ /\ RatEQ(a.cand.similarity_score, b.cand.similarity_score)
       /\ DiscoveredBefore(a.pair, b.pair)

\* the two time ranges share more than an end point
Intersect(x, y) == x.start_time < y.end_time /\ y.start_time < x.end_time

Returned == {candidates[m] : m \in 1..Len(candidates)}

\* the candidate d is missing from the returned list because it intersects
\* a returned candidate ranked before it
DroppedForOverlap(found, d) ==
    \E e \in found :
        /\ RankedBefore(e, d)
        /\ e.cand \in Returned
        /\ Intersect(d.cand, e.cand)

\* the candidate d is ranked after the fifth returned candidate
DroppedForCap(found, d) ==
    /\ Len(candidates) = MaxCandidates
    /\ \E e \in found :
          /\ RankedBefore(e, d)
          /\ e.cand = candidates[MaxCandidates]

\* C14: every candidate that passed the duration check and is absent from
\* the returned list intersects a returned candidate ranked before it or is
\* ranked after the fifth returned candidate; the highest-ranked candidate
\* that passed the duration check is the first element returned, and the
\* confidence detect_intro reports is the maximum score over all candidates
\* that passed the duration check.
C14_GreedyMaximal ==
    Searched =>
        LET found == Found
        IN /\ \A d \in found :
                 d.cand \notin Returned
                    => (DroppedForOverlap(found, d) \/ DroppedForCap(found, d))
           /\ found # {} =>
                 /\ candidates # <<>>
                 /\ \E e \in found :
                       /\ e.cand = candidates[1]
                       /\ \A d \in found \ {e} : RankedBefore(e, d)
           /\ (pc = "returned" /\ found # {}) =>
                 /\ result.found
                 /\ \A d \in found :
                       RatGE(result.confidence, d.cand.similarity_score)
                 /\ \E d \in found :
                       RatEQ(result.confidence, d.cand.similarity_score)

\* a detection in which one candidate was dropped for intersecting a
\* higher-ranked returned one and another, disjoint from all five returned,
\* was dropped because the list was full
C14_Witness ==
    /\ pc = "returned"
    /\ LET found == Found
       IN /\ \E d \in found :
                /\ d.cand \notin Returned
                /\ DroppedForOverlap(found, d)
                /\ ~DroppedForCap(found, d)
          /\ \E d \in found :
                /\ d.cand \notin Returned
                /\ DroppedForCap(found, d)
                /\ \A m \in 1..Len(candidates) : ~Intersect(d.cand, candidates[m])

====
